---- MODULE Spec2Model ----
(***************************************************************************)
(* A model of src/app.py: the Flask request handlers that keep the         *)
(* composition timeline, the frame clock (video_fps), the download index,  *)
(* the Storyblocks archive log and the frame-based export.                 *)
(*                                                                         *)
(* Numbers.  Seconds are kept in quarters (start4 = 4 * start_seconds) and *)
(* frames-per-second in halves (fps2 = 2 * fps); every value used is a     *)
(* small dyadic rational, so the float products of the code are exact and  *)
(* seconds * fps = (start4 * fps2) / 8.  round() is Python 3's round():    *)
(* to nearest, ties to the even integer.                                   *)
(*                                                                         *)
(* Keys.  transcription_data is keyed by str(id) and looked up by           *)
(* str(index); clips carry int(current_index).  Only integer indexes are   *)
(* drawn, on which str and int are inverse, so keys are kept as integers.  *)
(***************************************************************************)
EXTENDS Integers, Sequences, FiniteSets, TLC

\* ------------------------------------------------------------------ bounds
MaxClips == 2         \* clips in the timeline (Spec, SpecStorage)
MaxAppends == 3       \* clips in the timeline (SpecTracks)
MaxFaults == 1        \* storage writes that fail in one run
MaxArchive == 2       \* entries in the archive log
MaxThreadOps == 1     \* requests one server thread serves (SpecThreads)
MaxSegments == 2      \* records in the transcription document (SpecView)
MaxLoadedClips == 2   \* clips in the composition document at startup (SpecAllocator)

\* ------------------------------------------------------- optional numbers
NoneV == [kind |-> "none", v |-> 0]
NaNV == [kind |-> "nan", v |-> 0]
Num(x) == [kind |-> "num", v |-> x]

\* round(n / d) for an even d > 0, as Python 3 rounds a float: half to even.
PyRound(n, d) ==
    LET q == n \div d
        r == n % d
    IN  IF 2 * r < d THEN q
        ELSE IF 2 * r > d THEN q + 1
        ELSE IF q % 2 = 0 THEN q ELSE q + 1

\* ------------------------------------------------------------ JSON files
\* A file is absent, holds a whole document, or was truncated by a write
\* that did not complete (open(path, 'w') truncates, json.dump then fails).
Absent(empty) == [st |-> "absent", doc |-> empty]
Whole(doc) == [st |-> "ok", doc |-> doc]
Partial(empty) == [st |-> "partial", doc |-> empty]

SaveOutcomes == {"ok", "open_fail", "partial"}

\* load_json_file without the read of lines 47-49: always the default.
load_json_file_default(file, default_data) == default_data

load_json_file(file, default_data) ==
    IF file.st = "ok" THEN file.doc ELSE default_data

\* A write that reaches the disk whatever the outcome reported.
save_json_file_written(file, data, empty, outcome) == Whole(data)

\* The file after save_json_file(path, data) with the given outcome.
save_json_file(file, data, empty, outcome) ==
    CASE outcome = "ok" -> Whole(data)
      [] outcome = "open_fail" -> file
      [] OTHER -> Partial(empty)

\* What save_json_file returns.
save_result(outcome) == outcome = "ok"

\* ---------------------------------------------------------- transcription
\* The raw transcription document: segment 3 is the one of the spec's
\* scenario (10.0 s to 12.5 s); the second record has no "id" and spans
\* 0.25 s to 0.75 s.
RawSegments ==
    << [has_id |-> TRUE, id |-> 3, start4 |-> 40, end4 |-> 50],
       [has_id |-> FALSE, id |-> 0, start4 |-> 1, end4 |-> 3] >>

\* The key with the fallback counted from one instead of enumerate's zero.
SegmentKeyFromOne(raw, i) == IF raw[i].has_id THEN raw[i].id ELSE i

\* str(segment.get('id', i)), i being the record's position counted from 0.
SegmentKey(raw, i) == IF raw[i].has_id THEN raw[i].id ELSE i - 1

load_transcription_data_web(raw) ==
    LET keys == {SegmentKey(raw, i) : i \in DOMAIN raw}
        Last(k) == CHOOSE i \in DOMAIN raw :
                      /\ SegmentKey(raw, i) = k
                      /\ \A j \in DOMAIN raw : SegmentKey(raw, j) = k => j <= i
    IN  [k \in keys |->
            [start_seconds |-> raw[Last(k)].start4,
             end_seconds |-> raw[Last(k)].end4,
             duration_seconds |-> raw[Last(k)].end4 - raw[Last(k)].start4]]

\* transcription_data.get(current_index, {}) followed by the two
\* .get(..., 0.0) of the handlers.
SegmentStart(td, idx) == IF idx \in DOMAIN td THEN td[idx].start_seconds ELSE 0
SegmentEnd(td, idx) == IF idx \in DOMAIN td THEN td[idx].end_seconds ELSE 0

\* ------------------------------------------------------------ composition
EmptyComposition ==
    [hasSeq |-> FALSE, timebase |-> NoneV, hasClips |-> FALSE, clips |-> << >>]

DefaultTimebase == 30

get_initial_composition_data ==
    [hasSeq |-> TRUE, timebase |-> Num(DefaultTimebase), hasClips |-> TRUE,
     clips |-> << >>]

\* The composition documents found on disk at startup: none, one whose
\* sequence has no timebase, one without a sequence section.
InitialCompositionFiles ==
    { Absent(EmptyComposition),
      Whole([hasSeq |-> TRUE, timebase |-> NoneV, hasClips |-> TRUE,
             clips |-> << >>]),
      Whole(EmptyComposition) }

\* composition_data.get("sequence", {}).get("timebase", None)
InitialFps(cd) ==
    IF cd.hasSeq /\ cd.timebase.kind = "num" THEN Num(2 * cd.timebase.v)
    ELSE NoneV

\* ------------------------------------------------------------ frame clock
\* int(round(seconds * video_fps)) if video_fps is not None else 0.
\* A NaN fps makes int(round(...)) raise ValueError: see FrameRaises.
\* The conversion without the "if video_fps is not None" guard: an unset
\* fps counts as the default timebase.
frame_of_default(seconds4, fps) ==
    PyRound(seconds4 * (IF fps.kind = "num" THEN fps.v ELSE 2 * DefaultTimebase), 8)

frame_of(seconds4, fps) ==
    IF fps.kind = "num" THEN PyRound(seconds4 * fps.v, 8) ELSE 0

FrameRaises(fps) == fps.kind = "nan"

\* The clip frames with the span rounded, as line 490 rounds it.
clip_frames_span(start4, end4, fps) ==
    [start |-> frame_of(start4, fps),
     duration |-> frame_of(end4 - start4, fps)]

\* start_frame, end_frame and duration_frames of a clip entry.
clip_frames(start4, end4, fps) ==
    [start |-> frame_of(start4, fps),
     duration |-> frame_of(end4, fps) - frame_of(start4, fps)]

\* ---------------------------------------------------------- track allocator
\* A clip's field linked tells whether the clip has the key
\* "linked_transcript_index" (the clips the handlers build all have it; a
\* clip of a loaded document may lack it).  Line 135: for a clip without
\* the key, clip.get(...) is None, which equals no index.
RECURSIVE MaxTrack(_, _, _)
MaxTrack(clips, idx, acc) ==
    IF clips = << >> THEN acc
    ELSE MaxTrack(Tail(clips), idx,
                  IF Head(clips).linked
                     /\ Head(clips).linked_transcript_index = idx
                     /\ Head(clips).track > acc
                  THEN Head(clips).track ELSE acc)

\* The allocator without the test of line 135: the maximum over all clips.
RECURSIVE MaxTrackAny(_, _)
MaxTrackAny(clips, acc) ==
    IF clips = << >> THEN acc
    ELSE MaxTrackAny(Tail(clips), IF Head(clips).track > acc THEN Head(clips).track ELSE acc)

get_next_available_track_any(idx, cd) ==
    IF cd.hasSeq /\ cd.hasClips THEN MaxTrackAny(cd.clips, -1) + 1 ELSE -1 + 1

\* The scan with a clip that has no linked index counted for every index.
RECURSIVE MaxTrackUnlinked(_, _, _)
MaxTrackUnlinked(clips, idx, acc) ==
    IF clips = << >> THEN acc
    ELSE MaxTrackUnlinked(Tail(clips), idx,
                  IF (~Head(clips).linked \/ Head(clips).linked_transcript_index = idx)
                     /\ Head(clips).track > acc
                  THEN Head(clips).track ELSE acc)

get_next_available_track_unlinked(idx, cd) ==
    IF cd.hasSeq /\ cd.hasClips THEN MaxTrackUnlinked(cd.clips, idx, -1) + 1 ELSE -1 + 1

get_next_available_track(idx, cd) ==
    IF cd.hasSeq /\ cd.hasClips THEN MaxTrack(cd.clips, idx, -1) + 1 ELSE -1 + 1

\* Lines 143-149 of update_composition_json_data: make sure there is a
\* sequence with a clip list.
EnsureSequence(cd) ==
    IF ~cd.hasSeq THEN get_initial_composition_data
    ELSE IF ~cd.hasClips THEN [cd EXCEPT !.hasClips = TRUE, !.clips = << >>]
    ELSE cd

\* An append that puts the new clip in front of the list.
update_composition_json_data_front(cd, clip_entry) ==
    LET ready == EnsureSequence(cd)
        new_track == IF clip_entry.linked
                     THEN get_next_available_track(clip_entry.linked_transcript_index, ready)
                     ELSE 0
    IN  [ready EXCEPT !.clips = << [clip_entry EXCEPT !.track = new_track] >> \o @]

\* composition_data after update_composition_json_data(clip_entry); lines
\* 152-158: a clip entry without linked index gets track 0.
update_composition_json_data(cd, clip_entry) ==
    LET ready == EnsureSequence(cd)
        new_track == IF clip_entry.linked
                     THEN get_next_available_track(clip_entry.linked_transcript_index, ready)
                     ELSE 0
    IN  [ready EXCEPT !.clips = Append(@, [clip_entry EXCEPT !.track = new_track])]

\* ------------------------------------------------------------- payloads
Urls == {"u1", "u2"}
YoutubeIds == {1}
RequestIndexes == {3, 1, 7}

ImageFile(idx, n) == [kind |-> "img", idx |-> idx, n |-> n]
YoutubeFile(youtube_id) == [kind |-> "yt", idx |-> youtube_id, n |-> 0]
YoutubeUrl(youtube_id) == IF youtube_id = 1 THEN "https://www.youtube.com/watch?v=1" ELSE "https://www.youtube.com/watch?v="

\* Lines 372-380: the first of idx_sentence.ext, idx_sentence_1.ext, ...
\* that does not exist in the download directory.
RECURSIVE FreeCounter(_, _, _)
FreeCounter(dir, idx, n) ==
    IF ImageFile(idx, n) \in dir THEN FreeCounter(dir, idx, n + 1) ELSE n

NewImageFile(dir, idx) == ImageFile(idx, FreeCounter(dir, idx, 0))

\* --------------------------------------------------------------- state
VARIABLES
    transcription_file,    \* transcription.json: the raw segment records
    transcription_data,    \* segment key -> segment
    video_fps,             \* NoneV, NaNV or Num(2 * fps)
    composition_data,      \* the in-memory composition
    image_downloads_data,  \* url -> payload file
    composition_file,      \* composition.json
    image_downloads_file,  \* image_downloads.json
    download_dir,          \* the image files in downloads/
    archive_file,          \* storyblocks_links.json
    frames_file,           \* transcription_frames.json
    faults,                \* storage writes that failed so far
    last,                  \* the last request and its response
    set_fps_called,        \* whether a set_fps request was made since startup
    threads                \* requests in flight (threaded server only)

vars == << transcription_file, transcription_data, video_fps, composition_data, image_downloads_data,
           composition_file, image_downloads_file, download_dir, archive_file,
           frames_file, faults, last, set_fps_called, threads >>

EmptyIndex == [u \in {} |-> ImageFile(0, 0)]
EmptyArchive == [k \in {} |-> << >>]
EmptyFrames == [video_fps |-> NoneV, segments |-> [k \in {} |-> 0]]

NoFps == [kind |-> "missing", v |-> 0]

\* A request and the response the handler gave: status is "success"
\* (jsonify with status success), "error" (jsonify with status error) or
\* "unhandled" (an exception no handler caught: a bare HTTP 500);
\* acquisition is what the fetch or the downloader answered ("none" when
\* the handler did not run it), payload tells whether the handler wrote an
\* image payload, saves which documents save_json_file was called on.
\* data is the segment a segment view returned (NoSegment otherwise).
NoSegment == [start_seconds |-> 0, end_seconds |-> 0, duration_seconds |-> 0]

Response(op, status, reason, idx, url, fps, acquisition, payload, saves) ==
    [op |-> op, status |-> status, reason |-> reason, idx |-> idx, url |-> url,
     fps |-> fps, acquisition |-> acquisition, payload |-> payload, saves |-> saves,
     data |-> NoSegment]

Threads == {1, 2}
NoClip == [filename |-> YoutubeFile(0), start |-> 0, duration |-> 0,
           source_url |-> "", linked |-> TRUE, linked_transcript_index |-> 0,
           channel |-> "-", track |-> 0]
Idle == [pc |-> "idle", op |-> "none", clip |-> NoClip, archive |-> EmptyArchive,
         appended |-> 0, archived |-> 0]

\* initialize_data (before the first request is served), with the
\* transcription document one of transcription_files and the composition
\* document one of composition_files.  A document that is
\* missing, or has no "segments" key, loads as no segments at all: as the
\* empty sequence of records does.
StartupWith(transcription_files, composition_files) ==
    /\ transcription_file \in transcription_files
    /\ transcription_data = load_transcription_data_web(transcription_file)
    /\ composition_file \in composition_files
    /\ composition_data = load_json_file(composition_file, get_initial_composition_data)
    /\ video_fps = InitialFps(composition_data)
    /\ image_downloads_file = Absent(EmptyIndex)
    /\ image_downloads_data = load_json_file(image_downloads_file, EmptyIndex)
    /\ download_dir = {}
    /\ archive_file = Absent(EmptyArchive)
    /\ frames_file = Absent(EmptyFrames)
    /\ faults = 0
    /\ last = Response("init", "none", "", 0, "", NoFps, "none", FALSE, {})
    /\ set_fps_called = FALSE
    /\ threads = [t \in Threads |-> Idle]

Startup(transcription_files) ==
    StartupWith(transcription_files, InitialCompositionFiles)

Init == Startup({RawSegments})

\* The process is started again: the globals of lines 36-40 are reset and
\* initialize_data reads the documents that are on disk.
initialize_data ==
    /\ transcription_data' = load_transcription_data_web(transcription_file)
    /\ image_downloads_data' = load_json_file(image_downloads_file, EmptyIndex)
    /\ composition_data' = load_json_file(composition_file, get_initial_composition_data)
    /\ video_fps' = InitialFps(composition_data')
    /\ last' = Response("init", "none", "", 0, "", NoFps, "none", FALSE, {})
    /\ set_fps_called' = FALSE
    /\ UNCHANGED << transcription_file, composition_file, image_downloads_file,
                    download_dir, archive_file, frames_file, faults, threads >>

Cost(outcome) == IF outcome = "ok" THEN 0 ELSE 1

\* The clip list of the in-memory composition.
Clips == IF composition_data.hasSeq /\ composition_data.hasClips
         THEN composition_data.clips ELSE << >>

NumClips == Len(Clips)

RECURSIVE SumOver(_, _)
SumOver(f, S) ==
    IF S = {} THEN 0
    ELSE LET x == CHOOSE y \in S : TRUE IN f[x] + SumOver(f, S \ {x})

\* The number of entries of an archive log.
ArchiveEntries(doc) == SumOver([k \in DOMAIN doc |-> Len(doc[k])], DOMAIN doc)

\* ---------------------------------------------------------------- set_fps
FpsInputs ==
    { NoFps, [kind |-> "str", v |-> 0], [kind |-> "nan", v |-> 0],
      Num(-2), Num(0), Num(5) }

\* A set_fps that also converts the clips again, at the new fps.
set_timebase_backfill(cd, fps) ==
    [cd EXCEPT !.timebase = Num(PyRound(fps.v, 2)),
               !.clips = [i \in DOMAIN cd.clips |->
                  [cd.clips[i] EXCEPT
                     !.start = clip_frames(
                         SegmentStart(transcription_data, cd.clips[i].linked_transcript_index),
                         SegmentEnd(transcription_data, cd.clips[i].linked_transcript_index),
                         fps).start,
                     !.duration = clip_frames(
                         SegmentStart(transcription_data, cd.clips[i].linked_transcript_index),
                         SegmentEnd(transcription_data, cd.clips[i].linked_transcript_index),
                         fps).duration]]]

\* Line 464: composition_data["sequence"]["timebase"] = int(round(fps)).
set_timebase(cd, fps) == [cd EXCEPT !.timebase = Num(PyRound(fps.v, 2))]

set_fps(fps, outcome) ==
    /\ IF fps.kind = "missing"
       THEN \* line 457
            /\ outcome = "ok"
            /\ last' = Response("set_fps", "error", "fps_not_provided", 0, "", fps,
                                "none", FALSE, {})
            /\ UNCHANGED << video_fps, composition_data, composition_file, faults >>
       ELSE IF fps.kind = "str"
       THEN \* float(fps) raises ValueError
            /\ outcome = "ok"
            /\ last' = Response("set_fps", "error", "invalid_fps", 0, "", fps,
                                "none", FALSE, {})
            /\ UNCHANGED << video_fps, composition_data, composition_file, faults >>
       ELSE IF fps.kind = "nan"
       THEN \* video_fps is assigned before int(round(fps)) raises ValueError
            /\ outcome = "ok"
            /\ video_fps' = NaNV
            /\ last' = IF composition_data.hasSeq
                       THEN Response("set_fps", "error", "invalid_fps", 0, "", fps,
                                     "none", FALSE, {})
                       ELSE Response("set_fps", "success", "", 0, "", fps,
                                     "none", FALSE, {})
            /\ UNCHANGED << composition_data, composition_file, faults >>
       ELSE /\ video_fps' = Num(fps.v)
            /\ IF composition_data.hasSeq
               THEN /\ composition_data' = set_timebase(composition_data, fps)
                    /\ composition_file' =
                          save_json_file(composition_file, composition_data',
                                         EmptyComposition, outcome)
                    /\ faults' = faults + Cost(outcome)
                    /\ last' = Response("set_fps", "success", "", 0, "", fps,
                                        "none", FALSE, {"composition"})
               ELSE /\ outcome = "ok"
                    /\ last' = Response("set_fps", "success", "", 0, "", fps,
                                        "none", FALSE, {})
                    /\ UNCHANGED << composition_data, composition_file, faults >>
    /\ set_fps_called' = TRUE
    /\ UNCHANGED << transcription_file, transcription_data, image_downloads_data, image_downloads_file,
                    download_dir, archive_file, frames_file, threads >>

\* ------------------------------------------------- record media: image
\* What requests.get answers: the image, or a RequestException (network
\* error, HTTP error status).  A failure while the payload is written is
\* not drawn.
FetchOutcomes == {"ok", "http_error"}

\* _add_image_to_composition's clip entry (track is filled in by
\* update_composition_json_data).
image_clip_entry(filename, url, start4, end4, idx, fps) ==
    [filename |-> filename,
     start |-> clip_frames(start4, end4, fps).start,
     duration |-> clip_frames(start4, end4, fps).duration,
     source_url |-> url,
     linked |-> TRUE,
     linked_transcript_index |-> idx,
     channel |-> "-",
     track |-> 0]

\* _add_image_to_composition: append the clip and save the composition.
add_image_to_composition(filename, url, idx, outcome) ==
    /\ composition_data' =
          update_composition_json_data(composition_data,
              image_clip_entry(filename, url,
                               SegmentStart(transcription_data, idx),
                               SegmentEnd(transcription_data, idx), idx, video_fps))
    /\ composition_file' =
          save_json_file(composition_file, composition_data', EmptyComposition, outcome)

\* Lines 347-357: the url is in the download index.
image_already_downloaded(url, idx, outcome) ==
    /\ IF FrameRaises(video_fps)
       THEN \* ValueError outside any try block: the request dies with a 500
            /\ outcome = "ok"
            /\ last' = Response("image", "unhandled", "exception", idx, url, NoFps,
                                "none", FALSE, {})
            /\ UNCHANGED << composition_data, composition_file, faults >>
       ELSE /\ add_image_to_composition(image_downloads_data[url], url, idx, outcome)
            /\ faults' = faults + Cost(outcome)
            /\ last' = Response("image", "success", "", idx, url, NoFps, "none", FALSE,
                                {"composition"})
    /\ UNCHANGED << image_downloads_data, image_downloads_file, download_dir >>

\* Lines 359-403: fetch the image, write the payload, record it in the
\* index, append the clip.
image_fetch(url, idx, fetch, index_outcome, outcome) ==
    LET file_path == NewImageFile(download_dir, idx) IN
    IF fetch = "http_error"
    THEN \* requests.get / raise_for_status raised
         /\ index_outcome = "ok" /\ outcome = "ok"
         /\ last' = Response("image", "error", "network", idx, url, NoFps, fetch, FALSE, {})
         /\ UNCHANGED << composition_data, composition_file, image_downloads_data,
                         image_downloads_file, download_dir, faults >>
    ELSE /\ download_dir' = download_dir \cup {file_path}
         /\ image_downloads_data' = (url :> file_path) @@ image_downloads_data
         /\ image_downloads_file' =
               save_json_file(image_downloads_file, image_downloads_data',
                              EmptyIndex, index_outcome)
         /\ IF FrameRaises(video_fps)
            THEN \* ValueError caught by "except Exception"
                 /\ outcome = "ok"
                 /\ faults' = faults + Cost(index_outcome)
                 /\ last' = Response("image", "error", "exception", idx, url, NoFps,
                                     fetch, TRUE, {"index"})
                 /\ UNCHANGED << composition_data, composition_file >>
            ELSE /\ add_image_to_composition(file_path, url, idx, outcome)
                 /\ faults' = faults + Cost(index_outcome) + Cost(outcome)
                 /\ last' = Response("image", "success", "", idx, url, NoFps, fetch, TRUE,
                                     {"index", "composition"})

IndexHas(index, url) == url \in DOMAIN index

download_image_api(url, idx, fetch, index_outcome, outcome) ==
    /\ IF IndexHas(image_downloads_data, url)
       THEN /\ fetch = "ok" /\ index_outcome = "ok"
            /\ image_already_downloaded(url, idx, outcome)
       ELSE image_fetch(url, idx, fetch, index_outcome, outcome)
    /\ UNCHANGED << transcription_file, transcription_data, video_fps, archive_file, frames_file,
                    set_fps_called, threads >>

\* ------------------------------------------------- record media: video
\* What youtube_downloader.py answers: exit status 0 with the
\* DOWNLOAD_SUCCESS: marker, a non-zero exit status (CalledProcessError),
\* or exit status 0 without the marker.
DownloaderOutcomes == {"success", "exit_fail", "no_marker"}

youtube_clip_entry(youtube_id, start4, end4, idx, fps) ==
    [filename |-> YoutubeFile(youtube_id),
     start |-> clip_frames(start4, end4, fps).start,
     duration |-> clip_frames(start4, end4, fps).duration,
     source_url |-> YoutubeUrl(youtube_id),
     linked |-> TRUE,
     linked_transcript_index |-> idx,
     channel |-> "uploader",
     track |-> 0]

\* The test without line 301: any run that exits with status 0 counts.
download_succeeded_exit_only(downloader) == downloader # "exit_fail"

\* subprocess.run(..., check=True) returned and its output carries the
\* DOWNLOAD_SUCCESS: marker.
download_succeeded(downloader) == downloader = "success"

download_youtube_api(youtube_id, idx, downloader, outcome) ==
    /\ IF ~download_succeeded(downloader)
       THEN \* CalledProcessError, or no DOWNLOAD_SUCCESS: in the output
            /\ outcome = "ok"
            /\ last' = Response("youtube", "error", "downloader", idx,
                                YoutubeUrl(youtube_id), NoFps, downloader, FALSE, {})
            /\ UNCHANGED << composition_data, composition_file, faults >>
       ELSE /\ IF FrameRaises(video_fps)
               THEN \* ValueError caught by "except Exception"
                    /\ outcome = "ok"
                    /\ last' = Response("youtube", "error", "exception", idx,
                                        YoutubeUrl(youtube_id), NoFps, downloader, FALSE, {})
                    /\ UNCHANGED << composition_data, composition_file, faults >>
               ELSE /\ composition_data' =
                          update_composition_json_data(composition_data,
                              youtube_clip_entry(youtube_id,
                                  SegmentStart(transcription_data, idx),
                                  SegmentEnd(transcription_data, idx), idx, video_fps))
                    /\ composition_file' =
                          save_json_file(composition_file, composition_data',
                                         EmptyComposition, outcome)
                    /\ faults' = faults + Cost(outcome)
                    /\ last' = Response("youtube", "success", "", idx,
                                        YoutubeUrl(youtube_id), NoFps, downloader, FALSE,
                                        {"composition"})
    /\ UNCHANGED << transcription_file, transcription_data, video_fps, image_downloads_data,
                    image_downloads_file, download_dir, archive_file, frames_file,
                    set_fps_called, threads >>

\* ------------------------------------------------------ archive a link
archive_entry(url) == [url |-> url]

\* An archive that keeps only the newest entry of a segment's list.
archive_append_replace(archive_data, idx, url) ==
    (idx :> << archive_entry(url) >>) @@ archive_data

\* Lines 438-443: create the list if the key is absent, append the entry.
archive_append(archive_data, idx, url) ==
    IF idx \in DOMAIN archive_data
    THEN [archive_data EXCEPT ![idx] = Append(@, archive_entry(url))]
    ELSE (idx :> << archive_entry(url) >>) @@ archive_data

archive_storyblocks_link(url, idx, outcome) ==
    /\ archive_file' =
          save_json_file(archive_file,
                         archive_append(load_json_file(archive_file, EmptyArchive), idx, url),
                         EmptyArchive, outcome)
    /\ faults' = faults + Cost(outcome)
    /\ last' = IF save_result(outcome)
               THEN Response("archive", "success", "", idx, url, NoFps, "none", FALSE,
                             {"archive"})
               ELSE Response("archive", "error", "save_failed", idx, url, NoFps,
                             "none", FALSE, {"archive"})
    /\ UNCHANGED << transcription_file, transcription_data, video_fps, composition_data,
                    image_downloads_data, composition_file, image_downloads_file,
                    download_dir, frames_file, set_fps_called, threads >>

\* ------------------------------------------------- frame-based export
\* Lines 481-493: one entry per segment, and the fps used.
frame_based_segment(segment, fps) ==
    [start_frame |-> frame_of(segment.start_seconds, fps),
     end_frame |-> frame_of(segment.end_seconds, fps),
     duration_frames |-> frame_of(segment.duration_seconds, fps)]

frame_based_data(td, fps) ==
    [video_fps |-> fps,
     segments |-> [k \in DOMAIN td |-> frame_based_segment(td[k], fps)]]

\* The export without the test of line 475.
fps_unset_never(fps) == FALSE

\* Line 475: video_fps is None.
fps_unset(fps) == fps.kind = "none"

generate_frame_based_json_api(outcome) ==
    /\ IF fps_unset(video_fps)
       THEN /\ outcome = "ok"
            /\ last' = Response("export", "error", "fps_not_set", 0, "", NoFps,
                                "none", FALSE, {})
            /\ UNCHANGED << frames_file, faults >>
       ELSE IF DOMAIN transcription_data = {}
       THEN /\ outcome = "ok"
            /\ last' = Response("export", "error", "no_transcription", 0, "", NoFps,
                                "none", FALSE, {})
            /\ UNCHANGED << frames_file, faults >>
       ELSE IF FrameRaises(video_fps)
       THEN \* ValueError outside any try block
            /\ outcome = "ok"
            /\ last' = Response("export", "unhandled", "exception", 0, "", NoFps,
                                "none", FALSE, {})
            /\ UNCHANGED << frames_file, faults >>
       ELSE /\ frames_file' =
                  save_json_file(frames_file,
                                 frame_based_data(transcription_data, video_fps),
                                 EmptyFrames, outcome)
            /\ faults' = faults + Cost(outcome)
            /\ last' = IF save_result(outcome)
                       THEN Response("export", "success", "", 0, "", NoFps, "none", FALSE,
                                     {"frames"})
                       ELSE Response("export", "error", "save_failed", 0, "", NoFps,
                                     "none", FALSE, {"frames"})
    /\ UNCHANGED << transcription_file, transcription_data, video_fps, composition_data,
                    image_downloads_data, composition_file, image_downloads_file,
                    download_dir, archive_file, set_fps_called, threads >>

\* ------------------------------------------------------- segment view
\* Lines 203-207: transcription_data.get(current_key, {}) is empty exactly
\* when the key is not loaded (a loaded segment always has four fields).
get_data_for_index(index) ==
    /\ last' = IF index \in DOMAIN transcription_data
               THEN [Response("view", "success", "", index, "", video_fps, "none",
                              FALSE, {})
                        EXCEPT !.data = transcription_data[index]]
               ELSE Response("view", "error", "not_found", index, "", NoFps, "none",
                             FALSE, {})
    /\ UNCHANGED << transcription_file, transcription_data, video_fps,
                    composition_data, image_downloads_data, composition_file,
                    image_downloads_file, download_dir, archive_file, frames_file,
                    faults, set_fps_called, threads >>

\* ------------------------------------------------------ threaded server
\* app.run() serves each request on its own thread and the handlers take
\* no lock, so the steps of two requests interleave.  A video request whose
\* download succeeded and an archive request are followed step by step; a
\* thread's record keeps its local variables.
ThreadUnchanged ==
    UNCHANGED << transcription_file, transcription_data, video_fps, image_downloads_data,
                 image_downloads_file, download_dir, frames_file, faults, last,
                 set_fps_called >>

\* download_youtube_api, lines 301-321: the clip entry is built.
youtube_begin(t, youtube_id, idx) ==
    /\ threads[t].pc = "idle"
    /\ ~FrameRaises(video_fps)
    /\ threads' = [threads EXCEPT ![t] =
          [@ EXCEPT !.pc = "scan", !.op = "youtube",
                    !.clip = youtube_clip_entry(youtube_id,
                                 SegmentStart(transcription_data, idx),
                                 SegmentEnd(transcription_data, idx), idx, video_fps)]]
    /\ UNCHANGED << composition_data, composition_file, archive_file >>
    /\ ThreadUnchanged

\* update_composition_json_data, lines 143-155: the track is chosen.
append_scan(t) ==
    /\ threads[t].pc = "scan"
    /\ composition_data' = EnsureSequence(composition_data)
    /\ threads' = [threads EXCEPT ![t] =
          [@ EXCEPT !.pc = "append",
                    !.clip = [@ EXCEPT !.track =
                        get_next_available_track(threads[t].clip.linked_transcript_index,
                                                 composition_data')]]]
    /\ UNCHANGED << composition_file, archive_file >>
    /\ ThreadUnchanged

\* update_composition_json_data, line 160: the clip is appended.
append_clip(t) ==
    /\ threads[t].pc = "append"
    /\ composition_data' =
          [composition_data EXCEPT !.clips = Append(@, threads[t].clip)]
    /\ threads' = [threads EXCEPT ![t] = [@ EXCEPT !.pc = "save"]]
    /\ UNCHANGED << composition_file, archive_file >>
    /\ ThreadUnchanged

\* update_composition_json_data, line 161, and the handler's return.
append_save(t) ==
    /\ threads[t].pc = "save"
    /\ composition_file' =
          save_json_file(composition_file, composition_data, EmptyComposition, "ok")
    /\ threads' = [threads EXCEPT ![t] =
          [@ EXCEPT !.pc = "idle", !.appended = @ + 1]]
    /\ UNCHANGED << composition_data, archive_file >>
    /\ ThreadUnchanged

\* archive_storyblocks_link, lines 436-443: load the log, append the entry.
archive_load(t, url, idx) ==
    /\ threads[t].pc = "idle"
    /\ threads' = [threads EXCEPT ![t] =
          [@ EXCEPT !.pc = "write", !.op = "archive",
                    !.archive = archive_append(
                        load_json_file(archive_file, EmptyArchive), idx, url)]]
    /\ UNCHANGED << composition_data, composition_file, archive_file >>
    /\ ThreadUnchanged

\* archive_storyblocks_link, lines 445-446: write the log, return success.
archive_write(t) ==
    /\ threads[t].pc = "write"
    /\ archive_file' =
          save_json_file(archive_file, threads[t].archive, EmptyArchive, "ok")
    /\ threads' = [threads EXCEPT ![t] =
          [@ EXCEPT !.pc = "idle", !.archived = @ + 1,
                    !.archive = EmptyArchive]]
    /\ UNCHANGED << composition_data, composition_file >>
    /\ ThreadUnchanged

\* ------------------------------------------------------- specifications
\* Spec: one request at a time, storage healthy: set_fps and the two
\* record-media handlers.
MediaFpsInputs == { [kind |-> "str", v |-> 0], [kind |-> "nan", v |-> 0], Num(5) }

SetFps == \E fps \in MediaFpsInputs : set_fps(fps, "ok")

DownloadImage ==
    /\ NumClips < MaxClips
    /\ \E url \in Urls, idx \in RequestIndexes, fetch \in FetchOutcomes :
          download_image_api(url, idx, fetch, "ok", "ok")

DownloadYoutube ==
    /\ NumClips < MaxClips
    /\ \E youtube_id \in YoutubeIds, idx \in RequestIndexes,
          downloader \in DownloaderOutcomes :
          download_youtube_api(youtube_id, idx, downloader, "ok")

Next == SetFps \/ DownloadImage \/ DownloadYoutube

Spec == Init /\ [][Next]_vars

\* SpecTracks: appends only, for every segment index, up to MaxAppends clips.
TracksImage ==
    /\ NumClips < MaxAppends
    /\ \E url \in Urls, idx \in RequestIndexes, fetch \in FetchOutcomes :
          download_image_api(url, idx, fetch, "ok", "ok")

TracksYoutube ==
    /\ NumClips < MaxAppends
    /\ \E youtube_id \in YoutubeIds, idx \in RequestIndexes,
          downloader \in DownloaderOutcomes :
          download_youtube_api(youtube_id, idx, downloader, "ok")

NextTracks == TracksImage \/ TracksYoutube

SpecTracks == Init /\ [][NextTracks]_vars

\* SpecStorage: one request at a time, and up to MaxFaults of the writes
\* of save_json_file fail.
StorageIndexes == {3, 7}

StorageSetFps ==
    \E outcome \in SaveOutcomes :
        /\ faults + Cost(outcome) <= MaxFaults
        /\ set_fps(Num(5), outcome)

StorageImage ==
    /\ NumClips < MaxClips
    /\ \E url \in Urls, idx \in StorageIndexes, fetch \in FetchOutcomes,
          index_outcome \in SaveOutcomes, outcome \in SaveOutcomes :
          /\ faults + Cost(index_outcome) + Cost(outcome) <= MaxFaults
          /\ download_image_api(url, idx, fetch, index_outcome, outcome)

StorageYoutube ==
    /\ NumClips < MaxClips
    /\ \E youtube_id \in YoutubeIds, idx \in StorageIndexes,
          downloader \in DownloaderOutcomes, outcome \in SaveOutcomes :
          /\ faults + Cost(outcome) <= MaxFaults
          /\ download_youtube_api(youtube_id, idx, downloader, outcome)

NextStorage == StorageSetFps \/ StorageImage \/ StorageYoutube

SpecStorage == Init /\ [][NextStorage]_vars

\* SpecClock: the frame clock and the export: set_fps with every kind of
\* input, the export, and failing writes.
ClockSetFps ==
    \E fps \in FpsInputs, outcome \in SaveOutcomes :
        /\ faults + Cost(outcome) <= MaxFaults
        /\ set_fps(fps, outcome)

ClockExport ==
    \E outcome \in SaveOutcomes :
        /\ faults + Cost(outcome) <= MaxFaults
        /\ generate_frame_based_json_api(outcome)

NextClock == ClockSetFps \/ ClockExport

SpecClock == Init /\ [][NextClock]_vars

\* SpecArchive: archive requests, one at a time, up to MaxArchive entries,
\* and up to MaxFaults failing writes.
ArchiveSize == ArchiveEntries(archive_file.doc)

ArchiveLink ==
    /\ ArchiveSize < MaxArchive
    /\ \E url \in Urls, idx \in RequestIndexes, outcome \in SaveOutcomes :
          /\ faults + Cost(outcome) <= MaxFaults
          /\ archive_storyblocks_link(url, idx, outcome)

NextArchive == ArchiveLink

SpecArchive == Init /\ [][NextArchive]_vars

\* SpecThreads: the threaded server: each thread serves up to MaxThreadOps
\* requests, storage healthy.
ThreadIndexes == {3, 7}

ThreadFree(t) == threads[t].appended + threads[t].archived < MaxThreadOps

YoutubeBegin ==
    \E t \in Threads, youtube_id \in YoutubeIds, idx \in ThreadIndexes :
        ThreadFree(t) /\ youtube_begin(t, youtube_id, idx)
AppendScan == \E t \in Threads : append_scan(t)
AppendClip == \E t \in Threads : append_clip(t)
AppendSave == \E t \in Threads : append_save(t)
ArchiveLoad ==
    \E t \in Threads, url \in Urls, idx \in ThreadIndexes :
        ThreadFree(t) /\ archive_load(t, url, idx)
ArchiveWrite == \E t \in Threads : archive_write(t)

NextThreads ==
    YoutubeBegin \/ AppendScan \/ AppendClip \/ AppendSave \/ ArchiveLoad \/ ArchiveWrite

SpecThreads == Init /\ [][NextThreads]_vars

\* SpecReload: requests whose writes may fail, and the process may be
\* started again between two requests.
ReloadIndexes == {3, 7}

ReloadSetFps ==
    \E outcome \in SaveOutcomes :
        /\ faults + Cost(outcome) <= MaxFaults
        /\ set_fps(Num(5), outcome)

ReloadImage ==
    /\ NumClips < MaxClips
    /\ \E outcome \in SaveOutcomes :
          /\ faults + Cost(outcome) <= MaxFaults
          /\ download_image_api("u1", 3, "ok", "ok", outcome)

ReloadYoutube ==
    /\ NumClips < MaxClips
    /\ \E youtube_id \in YoutubeIds, idx \in ReloadIndexes, outcome \in SaveOutcomes :
          /\ faults + Cost(outcome) <= MaxFaults
          /\ download_youtube_api(youtube_id, idx, "success", outcome)

Reload == initialize_data

NextReload == ReloadSetFps \/ ReloadImage \/ ReloadYoutube \/ Reload

SpecReload == Init /\ [][NextReload]_vars

\* SpecView: the segment store: startup with every transcription document
\* of up to MaxSegments records, then segment views.
RawRecords ==
    { [has_id |-> FALSE, id |-> 0, start4 |-> 1, end4 |-> 3],
      [has_id |-> TRUE, id |-> 0, start4 |-> 8, end4 |-> 12],
      [has_id |-> TRUE, id |-> 1, start4 |-> 20, end4 |-> 24],
      [has_id |-> TRUE, id |-> 3, start4 |-> 40, end4 |-> 50] }

TranscriptionFiles == UNION { [1..n -> RawRecords] : n \in 0..MaxSegments }

ViewIndexes == 0..3

InitView == Startup(TranscriptionFiles)

View == \E index \in ViewIndexes : get_data_for_index(index)

NextView == View

SpecView == InitView /\ [][NextView]_vars

\* SpecTimeline: every handler, one request at a time, storage healthy.
TimelineIndexes == {3, 7}

TimelineSetFps == set_fps(Num(5), "ok")

TimelineImage ==
    /\ NumClips < MaxClips
    /\ \E idx \in TimelineIndexes, fetch \in FetchOutcomes :
          download_image_api("u1", idx, fetch, "ok", "ok")

TimelineYoutube ==
    /\ NumClips < MaxClips
    /\ \E youtube_id \in YoutubeIds, idx \in TimelineIndexes,
          downloader \in DownloaderOutcomes :
          download_youtube_api(youtube_id, idx, downloader, "ok")

TimelineArchive ==
    /\ ArchiveSize < MaxArchive
    /\ \E idx \in TimelineIndexes : archive_storyblocks_link("u1", idx, "ok")

TimelineExport == generate_frame_based_json_api("ok")

TimelineView == \E index \in TimelineIndexes : get_data_for_index(index)

NextTimeline ==
    \/ TimelineSetFps \/ TimelineImage \/ TimelineYoutube
    \/ TimelineArchive \/ TimelineExport \/ TimelineView

SpecTimeline == Init /\ [][NextTimeline]_vars

\* SpecFrames: set_fps with every number it accepts (negative, zero,
\* positive) and the record-media handlers, storage healthy.
FramesFpsInputs == { Num(-2), Num(0), Num(5) }

FramesIndexes == {3, 1}

FramesSetFps == \E fps \in FramesFpsInputs : set_fps(fps, "ok")

FramesImage ==
    /\ NumClips < MaxClips
    /\ \E url \in Urls, idx \in FramesIndexes :
          download_image_api(url, idx, "ok", "ok", "ok")

FramesYoutube ==
    /\ NumClips < MaxClips
    /\ \E youtube_id \in YoutubeIds, idx \in FramesIndexes :
          download_youtube_api(youtube_id, idx, "success", "ok")

NextFrames == FramesSetFps \/ FramesImage \/ FramesYoutube

SpecFrames == Init /\ [][NextFrames]_vars

\* SpecAllocator: update_composition_json_data applied to clip entries with
\* and without a linked index, starting from composition documents that
\* already hold up to MaxLoadedClips clips, some without a linked index
\* and some on tracks with gaps.
LoadedClip(linked, idx, track) ==
    [filename |-> ImageFile(idx, 0), start |-> 0, duration |-> 0,
     source_url |-> "u1", linked |-> linked, linked_transcript_index |-> idx,
     channel |-> "-", track |-> track]

LoadedClips ==
    { LoadedClip(FALSE, 0, 0), LoadedClip(FALSE, 0, 5),
      LoadedClip(TRUE, 3, 0), LoadedClip(TRUE, 3, 2), LoadedClip(TRUE, 7, 0) }

LoadedCompositionFiles ==
    { Whole([get_initial_composition_data EXCEPT !.clips = clips]) :
        clips \in UNION { [1..n -> LoadedClips] : n \in 0..MaxLoadedClips } }

\* The clip entries given to update_composition_json_data (their track is
\* assigned by it).
AllocatorEntries ==
    { LoadedClip(TRUE, 3, 0), LoadedClip(TRUE, 7, 0), LoadedClip(FALSE, 0, 0) }

InitAllocator == StartupWith({RawSegments}, LoadedCompositionFiles)

\* update_composition_json_data(clip_entry), called on its own.
AllocatorAppend ==
    /\ NumClips < MaxAppends
    /\ \E clip_entry \in AllocatorEntries :
          /\ composition_data' = update_composition_json_data(composition_data, clip_entry)
          /\ composition_file' =
                save_json_file(composition_file, composition_data', EmptyComposition, "ok")
          /\ last' = Response("append", "success", "", clip_entry.linked_transcript_index,
                              clip_entry.source_url, NoFps, "none", FALSE, {"composition"})
    /\ UNCHANGED << transcription_file, transcription_data, video_fps,
                    image_downloads_data, image_downloads_file, download_dir,
                    archive_file, frames_file, faults, set_fps_called, threads >>

NextAllocator == AllocatorAppend

SpecAllocator == InitAllocator /\ [][NextAllocator]_vars

\* --------------------------------------------------------------- claims
AllIdle == \A t \in Threads : threads[t].pc = "idle"
Appended == SumOver([t \in Threads |-> threads[t].appended], Threads)
Archived == SumOver([t \in Threads |-> threads[t].archived], Threads)

\* C1: starting from an empty timeline, the clips of one segment index,
\* in list order, carry the tracks 0, 1, ..., n-1: the track of a clip is
\* the number of earlier clips of its segment index, whatever clips of
\* other indexes lie in between.
C1_TracksCompact ==
    \A i \in 1..Len(Clips) :
        Clips[i].track =
            Cardinality({j \in 1..(i - 1) :
                Clips[j].linked_transcript_index = Clips[i].linked_transcript_index})

\* Segment 3, then segment 7, then segment 3 again: tracks 0, 0, 1.
C1_Witness ==
    /\ Len(Clips) = 3
    /\ Clips[1].linked_transcript_index = 3 /\ Clips[1].track = 0
    /\ Clips[2].linked_transcript_index = 7 /\ Clips[2].track = 0
    /\ Clips[3].linked_transcript_index = 3 /\ Clips[3].track = 1

\* C2: when the requests that ran concurrently have all returned, the
\* timeline holds one clip per request and no two clips share a
\* (segment index, track) pair.
C2_ConcurrentAppendsSerialized ==
    AllIdle =>
        /\ Len(Clips) = Appended
        /\ \A i, j \in 1..Len(Clips) :
              (i # j /\ Clips[i].linked_transcript_index = Clips[j].linked_transcript_index)
                  => Clips[i].track # Clips[j].track

\* C3: when the archive requests that ran concurrently have all returned
\* success, the archive log on disk holds one entry per request.
C3_NoLostArchiveEntry ==
    AllIdle =>
        /\ archive_file.st = "ok" \/ Archived = 0
        /\ ArchiveEntries(archive_file.doc) = Archived

\* C4: a record-media request that answers success has the appended clip
\* in the composition document on disk.
C4_SuccessMeansPersisted ==
    (last.op \in {"image", "youtube"} /\ last.status = "success") =>
        /\ composition_file.st = "ok"
        /\ composition_file.doc.hasSeq /\ composition_file.doc.hasClips
        /\ Len(composition_file.doc.clips) = Len(Clips)
        /\ composition_file.doc.clips[Len(Clips)] = Clips[Len(Clips)]

\* C5: set_fps with a non-numeric or a non-positive value answers an error,
\* leaves video_fps and the composition (its timebase) as they were, and
\* calls save_json_file on nothing.
InvalidFps(fps) == fps.kind = "str" \/ (fps.kind = "num" /\ fps.v <= 0)

C5_InvalidFpsRejected ==
    [][ (last'.op = "set_fps" /\ InvalidFps(last'.fps)) =>
            /\ last'.status = "error"
            /\ video_fps' = video_fps
            /\ composition_data' = composition_data
            /\ composition_file' = composition_file
            /\ last'.saves = {} ]_vars

\* C6 as stated: an export requested before any set_fps request fails
\* with the precondition error, and no export document is written.
C6_ExportBeforeSetFpsFails ==
    (last.op = "export" /\ ~set_fps_called) =>
        /\ last.status = "error" /\ last.reason = "fps_not_set"
        /\ last.saves = {}
        /\ frames_file.st = "absent"

\* C6 as amended: an export requested while video_fps is unset fails with
\* the precondition error, and no export document is written.
C6_ExportWhileFpsUnsetFails ==
    (last.op = "export" /\ video_fps.kind = "none") =>
        /\ last.status = "error" /\ last.reason = "fps_not_set"
        /\ last.saves = {}
        /\ frames_file.st = "absent"

C6_Witness ==
    last.op = "export" /\ video_fps.kind = "none" /\ ~set_fps_called

\* C7: in the export document every segment's duration in frames is its
\* end frame minus its start frame.
C7_ExportDurationIsSpan ==
    frames_file.st = "ok" =>
        \A k \in DOMAIN frames_file.doc.segments :
            frames_file.doc.segments[k].duration_frames =
                frames_file.doc.segments[k].end_frame
                    - frames_file.doc.segments[k].start_frame

\* C8: a clip appended while video_fps is a number f has
\* start = round(start_seconds * f) and
\* duration = round(end_seconds * f) - round(start_seconds * f), with the
\* seconds of its segment and the f of that moment; segment 3 (10.0 s to
\* 12.5 s) at 30 fps gets start 300 and duration 75.
C8_ClipFrames ==
    [][ (Len(Clips') = Len(Clips) + 1 /\ video_fps.kind = "num") =>
            LET c == Clips'[Len(Clips')]
                s == SegmentStart(transcription_data, c.linked_transcript_index)
                e == SegmentEnd(transcription_data, c.linked_transcript_index)
            IN  /\ c.start = PyRound(s * video_fps.v, 8)
                /\ c.duration = PyRound(e * video_fps.v, 8) - PyRound(s * video_fps.v, 8)
                /\ (c.linked_transcript_index = 3 /\ video_fps.v = 60)
                      => (c.start = 300 /\ c.duration = 75) ]_vars

\* Two clips of segment 3, one appended at 30 fps and one at 2.5 fps.
C8_Witness ==
    \E i, j \in 1..Len(Clips) :
        /\ Clips[i].linked_transcript_index = 3
        /\ Clips[i].start = 300 /\ Clips[i].duration = 75
        /\ Clips[j].linked_transcript_index = 3
        /\ Clips[j].start = 25 /\ Clips[j].duration = 6

\* C9: a record-media request whose acquisition step failed answers an
\* error and changes neither the composition (in memory, on disk) nor the
\* download index (in memory, on disk).
AcquisitionFailed(resp) ==
    /\ resp.op \in {"image", "youtube"}
    /\ resp.acquisition \in {"http_error", "exit_fail", "no_marker"}

C9_FailedAcquisitionChangesNothing ==
    [][ AcquisitionFailed(last') =>
            /\ last'.status = "error"
            /\ composition_data' = composition_data
            /\ composition_file' = composition_file
            /\ image_downloads_data' = image_downloads_data
            /\ image_downloads_file' = image_downloads_file ]_vars

C9_Witness ==
    /\ AcquisitionFailed(last)
    /\ last.op = "youtube" /\ last.acquisition = "no_marker"
    /\ Len(Clips) > 0
    /\ DOMAIN image_downloads_data # {}

\* C10: an image request whose url is in the download index fetches
\* nothing, writes no payload, and appends exactly one clip, which carries
\* the recorded filename.
C10_DedupHitAppendsOneClip ==
    [][ (last'.op = "image" /\ IndexHas(image_downloads_data, last'.url)) =>
            /\ last'.acquisition = "none"
            /\ ~last'.payload
            /\ download_dir' = download_dir
            /\ image_downloads_data' = image_downloads_data
            /\ Len(Clips') = Len(Clips) + 1
            /\ SubSeq(Clips', 1, Len(Clips)) = Clips
            /\ Clips'[Len(Clips')].filename = image_downloads_data[last'.url]
            /\ Clips'[Len(Clips')].source_url = last'.url ]_vars

\* C11: a record-media request all of whose writes succeeded leaves on
\* disk a whole composition document equal to the in-memory composition
\* (sequence fields, clips, clip order), and loading that document gives
\* the composition back; a restart that follows such a request finds the
\* same composition.
RecordMedia(resp) == resp.op \in {"image", "youtube"} /\ "composition" \in resp.saves

C12_SetFpsAckPersists ==
    (last.op = "set_fps" /\ last.status = "success") =>
        /\ video_fps = last.fps
        /\ composition_data.hasSeq
        /\ composition_data.timebase = Num(PyRound(last.fps.v, 2))
        /\ composition_file = Whole(composition_data)

\* C13: a set_fps request changes video_fps and the timebase only: the
\* clip list of the composition, in memory and in the document it saves,
\* is the one from before the request (same clips, same fields, same
\* order), and the download index is untouched.
C13_SetFpsKeepsClips ==
    [][ last'.op = "set_fps" =>
            /\ Clips' = Clips
            /\ composition_data'.clips = composition_data.clips
            /\ composition_data'.hasSeq = composition_data.hasSeq
            /\ composition_data'.hasClips = composition_data.hasClips
            /\ composition_file'.st = "ok" => composition_file'.doc.clips = Clips
            /\ image_downloads_data' = image_downloads_data
            /\ download_dir' = download_dir ]_vars

\* set_fps 2.5 was served after a clip converted at 30 fps (start 300)
\* and a clip converted at 2.5 fps (start 25) were appended.
C13_Witness ==
    /\ last.op = "set_fps" /\ last.status = "success"
    /\ video_fps = Num(5)
    /\ Len(Clips) = 2
    /\ Clips[1].start = 300 /\ Clips[1].duration = 75
    /\ Clips[2].start = 25 /\ Clips[2].duration = 6

\* C14: an archive request whose write of the archive log failed answers
\* an error and leaves the archive log on disk exactly as it was before
\* the request.
C14_FailedArchiveLeavesLog ==
    [][ (last'.op = "archive" /\ faults' > faults) =>
            /\ last'.status = "error"
            /\ archive_file' = archive_file ]_vars

\* C15: a request during which a write of save_json_file did not
\* complete leaves every document on disk whole (the previous version
\* or the new one, never an empty or partial file) and does not answer
\* success.
C15_WritesAreAtomic ==
    [][ faults' > faults =>
            /\ composition_file'.st # "partial"
            /\ image_downloads_file'.st # "partial"
            /\ composition_file' \in {composition_file, Whole(composition_data')}
            /\ image_downloads_file' \in {image_downloads_file, Whole(image_downloads_data')}
            /\ last'.status # "success" ]_vars

\* C16: a record-media request served while video_fps is unset, whose
\* acquisition did not fail, appends one clip with start 0 and duration 0,
\* whatever the seconds of its segment, on the next free track of its
\* segment index, and answers success.
C16_UnsetFpsGivesZeroFrames ==
    [][ (last'.op \in {"image", "youtube"} /\ ~AcquisitionFailed(last')
           /\ video_fps.kind = "none") =>
            LET c == Clips'[Len(Clips')] IN
            /\ last'.status = "success"
            /\ Len(Clips') = Len(Clips) + 1
            /\ SubSeq(Clips', 1, Len(Clips)) = Clips
            /\ c.linked_transcript_index = last'.idx
            /\ c.start = 0 /\ c.duration = 0
            /\ c.track = Cardinality({j \in 1..Len(Clips) :
                   Clips[j].linked_transcript_index = last'.idx}) ]_vars

\* Two clips of segment 3 (10.0 s to 12.5 s) appended while fps is unset.
C16_Witness ==
    /\ video_fps.kind = "none"
    /\ Len(Clips) = 2
    /\ \A i \in 1..2 : /\ Clips[i].linked_transcript_index = 3
                       /\ Clips[i].start = 0 /\ Clips[i].duration = 0
                       /\ Clips[i].track = i - 1
    /\ SegmentEnd(transcription_data, 3) > SegmentStart(transcription_data, 3)

\* C17: a segment view of an index answers not-found exactly when no
\* record of the transcription document has that index as its key (its
\* "id", or its position counted from 0 when it has no "id"); otherwise
\* it answers the data of the last record with that key.  So a record
\* without "id" is served under its position, and a record whose key no
\* other record has is served under that key.
RecordsUnder(raw, idx) ==
    {i \in DOMAIN raw : IF raw[i].has_id THEN raw[i].id = idx ELSE i - 1 = idx}

RecordData(rec) ==
    [start_seconds |-> rec.start4, end_seconds |-> rec.end4,
     duration_seconds |-> rec.end4 - rec.start4]

C17_ViewFindsLoadedSegments ==
    last.op = "view" =>
        LET under == RecordsUnder(transcription_file, last.idx) IN
        /\ (last.status = "error" /\ last.reason = "not_found") <=> under = {}
        /\ under # {} =>
              /\ last.status = "success"
              /\ \E i \in under :
                    /\ \A j \in under : j <= i
                    /\ last.data = RecordData(transcription_file[i])
        /\ \A i \in DOMAIN transcription_file :
              ~transcription_file[i].has_id => (i - 1) \in DOMAIN transcription_data

\* The document <<record with id 3, record without id>>: the view of 1
\* answers the second record, under its position.
C17_Witness ==
    /\ Len(transcription_file) = 2
    /\ transcription_file[1].has_id /\ transcription_file[1].id = 3
    /\ ~transcription_file[2].has_id
    /\ last.op = "view" /\ last.idx = 1 /\ last.status = "success"
    /\ last.data = RecordData(transcription_file[2])

\* C18: whatever request is served (set_fps, image, video, archive,
\* export, segment view), the clips that were in the composition are
\* still there, unchanged and in the same order, in memory and in the
\* document on disk; a record-media request that answers success added
\* exactly one clip, at the end; every other request added none.
C18_ClipListAppendOnly ==
    [][ /\ Len(Clips') \in {Len(Clips), Len(Clips) + 1}
        /\ SubSeq(Clips', 1, Len(Clips)) = Clips
        /\ (last'.op \in {"image", "youtube"} /\ last'.status = "success")
              => Len(Clips') = Len(Clips) + 1
        /\ last'.op \in {"set_fps", "archive", "export", "view"} => Clips' = Clips
        /\ (composition_file.st = "ok" /\ composition_file'.st = "ok") =>
              /\ Len(composition_file'.doc.clips) >= Len(composition_file.doc.clips)
              /\ SubSeq(composition_file'.doc.clips, 1, Len(composition_file.doc.clips))
                    = composition_file.doc.clips ]_vars

\* Two different clips are in the timeline and set_fps, the archive and
\* the export have been served; the last request was a segment view.
C18_Witness ==
    /\ Len(Clips) = 2 /\ Clips[1] # Clips[2]
    /\ set_fps_called
    /\ archive_file.st = "ok"
    /\ frames_file.st = "ok"
    /\ last.op = "view"
    /\ composition_file = Whole(composition_data)

\* C19: when the write of the composition fails during an append (a video
\* or dedup-hit image request, whose only write it is), the in-memory
\* composition has the new clip all the same, so that the track allocator
\* now answers the next higher track for that segment index, while the
\* document on disk does not hold the clip.
C19_FailedWriteKeepsClipInMemory ==
    [][ (last'.op \in {"image", "youtube"} /\ last'.saves = {"composition"}
           /\ faults' > faults) =>
            LET c == Clips'[Len(Clips')] IN
            /\ Len(Clips') = Len(Clips) + 1
            /\ SubSeq(Clips', 1, Len(Clips)) = Clips
            /\ c.linked_transcript_index = last'.idx
            /\ get_next_available_track(last'.idx, composition_data') = c.track + 1
            /\ get_next_available_track(last'.idx, composition_data')
                  = get_next_available_track(last'.idx, composition_data) + 1
            /\ composition_file' # Whole(composition_data')
            /\ composition_file'.st = "ok" =>
                  /\ composition_file' = composition_file
                  /\ \A i \in 1..Len(composition_file'.doc.clips) :
                        composition_file'.doc.clips[i] # c ]_vars

\* The second append for segment 3 failed to open the document: memory
\* has tracks 0 and 1, the disk has the first clip only.
C19_Witness ==
    /\ faults = 1
    /\ last.op = "youtube" /\ last.idx = 3
    /\ Len(Clips) = 2
    /\ Clips[1].linked_transcript_index = 3 /\ Clips[1].track = 0
    /\ Clips[2].linked_transcript_index = 3 /\ Clips[2].track = 1
    /\ composition_file.st = "ok"
    /\ composition_file.doc.clips = << Clips[1] >>

\* C20: every clip of the composition has start >= 0, duration >= 0 and
\* track >= 0.
C20_ClipFieldsNonNegative ==
    \A i \in 1..Len(Clips) :
        /\ Clips[i].start >= 0
        /\ Clips[i].duration >= 0
        /\ Clips[i].track >= 0

\* C21: an archive request for (segment index, url) that answers success
\* leaves on disk a whole archive log that is the log read before the
\* request (empty when the file was absent or unreadable) with one entry
\* for the url added at the end of that index's list, the list being
\* created when the key was absent; the lists of the other indexes are
\* the same.
C21_ArchiveAppendsOneEntry ==
    [][ (last'.op = "archive" /\ last'.status = "success") =>
            LET before == IF archive_file.st = "ok" THEN archive_file.doc
                          ELSE EmptyArchive
                after == archive_file'.doc
                old == IF last'.idx \in DOMAIN before THEN before[last'.idx]
                       ELSE << >>
            IN  /\ archive_file'.st = "ok"
                /\ DOMAIN after = DOMAIN before \cup {last'.idx}
                /\ Len(after[last'.idx]) = Len(old) + 1
                /\ SubSeq(after[last'.idx], 1, Len(old)) = old
                /\ after[last'.idx][Len(old) + 1].url = last'.url
                /\ \A k \in DOMAIN before \ {last'.idx} : after[k] = before[k]
                /\ ArchiveEntries(after) = ArchiveEntries(before) + 1 ]_vars

\* Segment 3 has the entries u1, u2 in that order: the last request
\* added u2 to an existing list.
C21_Witness ==
    /\ last.op = "archive" /\ last.status = "success"
    /\ last.idx = 3 /\ last.url = "u2"
    /\ archive_file.st = "ok"
    /\ DOMAIN archive_file.doc = {3}
    /\ archive_file.doc[3] = << archive_entry("u1"), archive_entry("u2") >>

\* C22: update_composition_json_data gives a clip entry without linked
\* index the track 0, and a clip entry with linked index i the track one
\* above the highest track of the clips linked to i (0 when there is
\* none): the clips without linked index that are in the composition,
\* whatever their tracks, count for no index.
TracksLinkedTo(clips, idx) ==
    {clips[j].track : j \in {k \in 1..Len(clips) :
        clips[k].linked /\ clips[k].linked_transcript_index = idx}}

C22_UnlinkedClipsIgnored ==
    [][ last'.op = "append" =>
            LET c == Clips'[Len(Clips')]
                used == TracksLinkedTo(Clips, c.linked_transcript_index)
            IN  /\ Len(Clips') = Len(Clips) + 1
                /\ SubSeq(Clips', 1, Len(Clips)) = Clips
                /\ ~c.linked => c.track = 0
                /\ c.linked =>
                     c.track = IF used = {} THEN 0
                               ELSE 1 + CHOOSE m \in used : \A x \in used : x <= m ]_vars

\* The loaded composition had a clip without linked index on track 5; a
\* clip for segment 3 was appended on track 0 and then a clip without
\* linked index, on track 0 as well.
C22_Witness ==
    /\ last.op = "append"
    /\ Len(Clips) = 3
    /\ ~Clips[1].linked /\ Clips[1].track = 5
    /\ Clips[2].linked /\ Clips[2].linked_transcript_index = 3 /\ Clips[2].track = 0
    /\ ~Clips[3].linked /\ Clips[3].track = 0

\* C23: when seconds * fps is exactly k + 1/2 with k >= 0, the frame is
\* k + 1: for the start frame and the end frame (start + duration) of a
\* clip appended at that fps, and for the start, end and duration frames
\* of the export document.
IsTie(seconds4, fps) ==
    fps.kind = "num" /\ seconds4 * fps.v >= 0 /\ (seconds4 * fps.v) % 8 = 4

TieFrame(seconds4, fps) == ((seconds4 * fps.v) \div 8) + 1

C23_TiesRoundAwayFromZero ==
    [][ /\ (last'.op \in {"image", "youtube"} /\ Len(Clips') = Len(Clips) + 1) =>
              LET c == Clips'[Len(Clips')]
                  s == SegmentStart(transcription_data, c.linked_transcript_index)
                  e == SegmentEnd(transcription_data, c.linked_transcript_index)
              IN  /\ IsTie(s, video_fps) => c.start = TieFrame(s, video_fps)
                  /\ IsTie(e, video_fps) =>
                        c.start + c.duration = TieFrame(e, video_fps)
        /\ (last'.op = "export" /\ last'.status = "success") =>
              \A k \in DOMAIN transcription_data :
                 LET seg == transcription_data[k]
                     out == frames_file'.doc.segments[k]
                 IN  /\ IsTie(seg.start_seconds, video_fps) =>
                           out.start_frame = TieFrame(seg.start_seconds, video_fps)
                     /\ IsTie(seg.end_seconds, video_fps) =>
                           out.end_frame = TieFrame(seg.end_seconds, video_fps)
                     /\ IsTie(seg.duration_seconds, video_fps) =>
                           out.duration_frames = TieFrame(seg.duration_seconds, video_fps)
      ]_vars

\* C24: every clip of the composition is linked to a segment index that
\* is loaded in transcription_data: a record-media request for an index
\* without loaded data appends no clip.
C24_ClipsReferToLoadedSegments ==
    \A i \in 1..Len(Clips) :
        Clips[i].linked_transcript_index \in DOMAIN transcription_data

====
